---- MODULE Spec2Model ----
(***************************************************************************)
(* A model of the per-iteration path tracing pipeline of pathtrace.cu:     *)
(* pathtraceInit / pathtrace / pathtraceFree, the kernels they launch      *)
(* (generateRayFromCamera, computeIntersections, shadeBSDFMaterial,        *)
(* finalGather) one thread at a time, the optional first-bounce cache,     *)
(* material sort and stream compaction, and checkCUDAError.                *)
(*                                                                         *)
(* Abstractions.  Colours are vec3 in hundredths (white = <<100,100,100>>);*)
(* material colours and emittance are whole numbers, the sky term is in    *)
(* hundredths.  A ray is an abstract origin (0 = camera, g+1 = a point on  *)
(* geometry g), an abstract direction 0..NumDirs-1 and a time sample.  The *)
(* floating-point geometry of the three intersection tests is a table per  *)
(* geometry record (IntersectionTest).  The compile-time switches of       *)
(* pathtrace.cu are the fields of cfg, fixed for a whole behaviour.        *)
(***************************************************************************)
EXTENDS Integers, Sequences, FiniteSets, TLC

\* ------------------------------------------------------------------ bounds
NumPixels == 2
MaxIter == 2
MaxTraceDepth == 2
NumGeoms == 3
MaxT == 3
MaxTris == 2
BaryDenom == 4

NumDirs == NumPixels + 1
Pixels == 0 .. NumPixels - 1
Times == {0, 1}

\* ------------------------------------------------- 32-bit unsigned integers
\* An unsigned int is a pair <<hi, lo>> of 16-bit halves.
W16 == 256 * 256

U32(hi, lo) == <<hi, lo>>

RECURSIVE Xor16(_, _, _)
Xor16(a, b, n) ==
    IF n = 0 THEN 0
    ELSE ((a + b) % 2) + 2 * Xor16(a \div 2, b \div 2, n - 1)

RECURSIVE Or16(_, _, _)
Or16(a, b, n) ==
    IF n = 0 THEN 0
    ELSE (IF (a % 2) + (b % 2) > 0 THEN 1 ELSE 0) + 2 * Or16(a \div 2, b \div 2, n - 1)

Xor32(a, b) == <<Xor16(a[1], b[1], 16), Xor16(a[2], b[2], 16)>>

Or32(a, b) == <<Or16(a[1], b[1], 16), Or16(a[2], b[2], 16)>>

Add32(a, b) ==
    LET lo == a[2] + b[2]
    IN  <<(a[1] + b[1] + (lo \div W16)) % W16, lo % W16>>

RECURSIVE Pow2(_)
Pow2(k) == IF k = 0 THEN 1 ELSE 2 * Pow2(k - 1)

\* a << k for 0 < k < 16
Shl32(a, k) ==
    <<(((a[1] % Pow2(16 - k)) * Pow2(k)) + (a[2] \div Pow2(16 - k))) % W16,
      ((a[2] % Pow2(16 - k)) * Pow2(k)) % W16>>

\* a >> k for 16 <= k < 32
Shr32(a, k) == <<0, a[1] \div Pow2(k - 16)>>

Mod32(a, n) == (((a[1] % n) * (W16 % n)) + (a[2] % n)) % n

\* The first and the second sample an engine in state rng gives a uniform
\* distribution, quantised to n buckets.
Sample(rng, n) == (rng[1] + rng[2]) % n

Sample2(rng, n) == Mod32(rng, n)

utilhash(a0) ==
    LET a1 == Add32(Add32(a0, U32(32469, 23830)), Shl32(a0, 12))
        a2 == Xor32(Xor32(a1, U32(51041, 49724)), Shr32(a1, 19))
        a3 == Add32(Add32(a2, U32(5718, 26545)), Shl32(a2, 5))
        a4 == Xor32(Add32(a3, U32(54178, 25708)), Shl32(a3, 9))
        a5 == Add32(Add32(a4, U32(64880, 18117)), Shl32(a4, 3))
        a6 == Xor32(Xor32(a5, U32(46426, 20233)), Shr32(a5, 16))
    IN  a6

\* utilhash((1 << 31) | (depth << 22) | iter) ^ utilhash(index)
SeedOf(it, index, d) ==
    LET key == Or32(Or32(U32(32768, 0), U32((d * 64) % W16, 0)), U32(0, it % W16))
    IN  Xor32(utilhash(key), utilhash(U32(0, index % W16)))

\* The seeds of every (iter, index, depth) a behaviour uses, computed once.
SeedTable ==
    [it \in 0 .. MaxIter |-> [index \in Pixels |-> [d \in 0 .. MaxTraceDepth |->
        SeedOf(it, index, d)]]]

\* The state of the thrust::default_random_engine the seed starts.
makeSeededRandomEngine(it, index, d) == SeedTable[it][index][d]

\* ------------------------------------------------------------------ colours
\* glm::vec3 colours in hundredths.
Vec3Zero == <<0, 0, 0>>

White == <<100, 100, 100>>

VAdd(a, b) == <<a[1] + b[1], a[2] + b[2], a[3] + b[3]>>

VMul_NoEmittance(c, m, k) == <<c[1] * m[1], c[2] * m[2], c[3] * m[3]>>

\* colour * (whole-number vector m) * (whole-number scalar k)
VMul(c, m, k) == <<c[1] * m[1] * k, c[2] * m[2] * k, c[3] * m[3] * k>>

\* The vertical coordinate of abstract direction d: -1, 0 or 1.
DirY(d) == (d % 3) - 1

\* (1 - t) * vec3(1, 1, 1) + t * vec3(0.5, 0.7, 1.0) with t = 0.5 * (y + 1), in hundredths
SkyTerm(d) ==
    LET t2 == DirY(d) + 1
    IN  <<((2 - t2) * 100 + t2 * 50) \div 2,
          ((2 - t2) * 100 + t2 * 70) \div 2,
          ((2 - t2) * 100 + t2 * 100) \div 2>>

\* The colour a path gets when it leaves the scene (AMBIENT_LIGHT_ENABLE or not).
AmbientColor(ambient, color, d) ==
    IF ambient
    THEN LET s == SkyTerm(d)
         IN  <<(color[1] * s[1]) \div 100, (color[2] * s[2]) \div 100, (color[3] * s[3]) \div 100>>
    ELSE Vec3Zero

\* -------------------------------------------------------------------- scene
\* Material records: materials[0] is a white light of emittance 5, the others diffuse.
SceneMaterials ==
    [m \in 0 .. 2 |->
        IF m = 0 THEN [color |-> <<1, 1, 1>>, emittance |-> 5]
        ELSE IF m = 1 THEN [color |-> <<2, 1, 1>>, emittance |-> 0]
        ELSE [color |-> <<1, 1, 2>>, emittance |-> 0]]

Geom(type, materialid, moving, ts) ==
    [type |-> type, materialid |-> materialid, moving |-> moving, ts |-> ts]

\* The geometry lists a behaviour renders: empty, one light that every ray hits,
\* a diffuse box with a light, and a box, a light and a moving diffuse sphere.
SceneGeoms ==
    << <<>>,
       <<Geom("SPHERE", 0, FALSE, <<2>>)>>,
       <<Geom("CUBE", 1, FALSE, <<2, -1, 1>>), Geom("SPHERE", 0, FALSE, <<-1, 3, 2>>)>>,
       <<Geom("CUBE", 2, FALSE, <<3, -1>>), Geom("SPHERE", 0, FALSE, <<-1, -1, 2>>),
         Geom("MESH", 1, TRUE, <<1, -1, 3, -1>>)>> >>

HasMoving(geoms) == \E i \in 1 .. Len(geoms) : geoms[i].moving

\* A ray: origin 0 is the camera position, origin g + 1 a point on geometry g.
Ray(origin, direction, time) == [origin |-> origin, direction |-> direction, time |-> time]

\* The intersection test of geometry record i (boxIntersectionTest,
\* sphereIntersectionTest or meshIntersectionTest by geom.type): the returned t, and
\* the point and normal it writes.  Only a moving geometry reads the ray's time.
IntersectionTest(geom, i, r) ==
    LET k == (r.direction + r.origin + (IF geom.moving THEN r.time ELSE 0)) % Len(geom.ts)
    IN  [t |-> geom.ts[k + 1], point |-> i + 1, normal |-> i + 1]

\* ------------------------------------------------------ computeIntersections
\* Every t an intersection test returns is below FLT_MAX.
FLT_MAX == MaxT + 1

\* memset(.., 0, ..) of a ShadeableIntersection
ZeroIntersection == [t |-> 0, materialId |-> 0, surfaceNormal |-> 0, point |-> 0]

CloserHit_AcceptZero(t, t_min) == t >= 0 /\ t_min > t

\* if (t > 0.0f && t_min > t)
CloserHit(t, t_min) == t > 0 /\ t_min > t

\* The loop over the geometry records, from record i on; tests[i + 1] is the result
\* of record i's intersection test.
RECURSIVE ScanGeoms(_, _, _)
ScanGeoms(tests, i, acc) ==
    IF i >= Len(tests) THEN acc
    ELSE LET r == tests[i + 1]
         IN  ScanGeoms(tests, i + 1,
                 IF CloserHit(r.t, acc.t_min)
                 THEN [t_min |-> r.t, hit_geom_index |-> i,
                       intersect_point |-> r.point, normal |-> r.normal]
                 ELSE acc)

\* What one computeIntersections thread leaves in its slot `old`.
RecordHit(tests, materialids, old) ==
    LET acc == ScanGeoms(tests, 0,
                   [t_min |-> FLT_MAX, hit_geom_index |-> -1, intersect_point |-> 0, normal |-> 0])
    IN  IF acc.hit_geom_index = -1
        THEN [old EXCEPT !.t = -1]
        ELSE [t |-> acc.t_min,
              materialId |-> materialids[acc.hit_geom_index + 1],
              surfaceNormal |-> acc.normal,
              point |-> acc.intersect_point]

ComputeIntersection(geoms, seg, old) ==
    RecordHit([i \in 1 .. Len(geoms) |-> IntersectionTest(geoms[i], i - 1, seg.ray)],
              [i \in 1 .. Len(geoms) |-> geoms[i].materialid], old)

\* ------------------------------------------------------------------ shading
\* scatterRay of interactions.h: the new ray leaves the hit point in a direction
\* sampled from the random engine, and the colour is weighted by the material.
scatterRay(seg, point, normal, material, rng) ==
    [seg EXCEPT !.ray = Ray(point, (Sample(rng, NumDirs) + normal) % NumDirs, seg.ray.time),
                !.color = VMul(seg.color, material.color, 1)]

\* The index shadeBSDFMaterial seeds its random engine with.
ShadeSeedIndex(idx, seg) == idx

ShadeReturnsEarly_OnlyNegative(seg) == seg.remainingBounces < 0

\* if (pathSegments[idx].remainingBounces <= 0) return;
ShadeReturnsEarly(seg) == seg.remainingBounces <= 0

LightPath_KeepsBouncing(seg, material) ==
    [seg EXCEPT !.color = VMul(seg.color, material.color, material.emittance)]

\* The hit of a light: color *= (materialColor * material.emittance) and the
\* terminal value of remainingBounces.
LightPath(seg, material) ==
    [seg EXCEPT !.color = VMul(seg.color, material.color, material.emittance),
                !.remainingBounces = -1]

ScatterPath_NoSky(seg, intersection, material, rng, ambient) ==
    LET s == scatterRay(seg, intersection.point, intersection.surfaceNormal, material, rng)
    IN  [s EXCEPT !.remainingBounces = s.remainingBounces - 1]

\* The hit of any other material: scatterRay, remainingBounces--, and the ambient
\* colour when that was the last bounce.
ScatterPath(seg, intersection, material, rng, ambient) ==
    LET s == scatterRay(seg, intersection.point, intersection.surfaceNormal, material, rng)
        rb == s.remainingBounces - 1
    IN  IF rb <= 0
        THEN [s EXCEPT !.remainingBounces = rb,
                       !.color = AmbientColor(ambient, s.color, s.ray.direction)]
        ELSE [s EXCEPT !.remainingBounces = rb]

MissPath_Decrement(seg, ambient) ==
    [seg EXCEPT !.color = AmbientColor(ambient, seg.color, seg.ray.direction),
                !.remainingBounces = seg.remainingBounces - 1]

\* No intersection: the ambient colour and remainingBounces = 0.
MissPath(seg, ambient) ==
    [seg EXCEPT !.color = AmbientColor(ambient, seg.color, seg.ray.direction),
                !.remainingBounces = 0]

\* One shadeBSDFMaterial thread: the path segment it leaves in slot idx.
ShadePath(it, idx, seg, intersection, materials, ambient) ==
    IF ShadeReturnsEarly(seg) THEN seg
    ELSE IF intersection.t > 0
    THEN LET rng == makeSeededRandomEngine(it, ShadeSeedIndex(idx, seg), seg.remainingBounces)
             material == materials[intersection.materialId]
         IN  IF material.emittance > 0
             THEN LightPath(seg, material)
             ELSE ScatterPath(seg, intersection, material, rng, ambient)
    ELSE MissPath(seg, ambient)

\* Whether that thread constructs a random engine.
ShadeUsesRng(seg, intersection) == seg.remainingBounces > 0 /\ intersection.t > 0

\* -------------------------------------------------------------------- state
VARIABLES
    cfg,                      \* the #define switches of pathtrace.cu
    hst_scene,                \* geoms, materials, state.traceDepth
    dev_image,                \* pixel -> accumulated colour
    dev_paths,                \* slot -> PathSegment
    dev_intersections,        \* slot -> ShadeableIntersection
    dev_intersections_cache,  \* slot -> ShadeableIntersection
    pc,                       \* where the host is
    iter,                     \* the iteration index of the current pathtrace call
    depth,
    remaining_paths,
    done,                     \* the threads of the running kernel that have finished
    snapPaths,                \* dev_paths when the running stage started
    snapIsects,               \* dev_intersections when the running stage started
    snapRemaining,            \* remaining_paths when the running stage started
    usedSeed,                 \* slot -> the seed its shade thread used (<<>> if none)
    contrib,                  \* per finished depth loop: pixel -> colour of its path
    lastError,                \* cudaGetLastError(): "none" or the stage that failed
    failedStage,
    diagnostic,               \* the message checkCUDAError printed before exit
    lateStages,               \* stages started after the failure
    ciIn,                     \* computeIntersections alone: the tests' t per record
    ciOut,
    meshIn,                   \* meshIntersectionTest alone: the triangles' results
    meshOut

cudaVars == <<lastError, failedStage, diagnostic, lateStages>>

ciVars == <<ciIn, ciOut, meshIn, meshOut>>

snapVars == <<snapPaths, snapIsects, snapRemaining>>

vars == <<cfg, hst_scene, dev_image, dev_paths, dev_intersections, dev_intersections_cache,
          pc, iter, depth, remaining_paths, done, snapPaths, snapIsects, snapRemaining,
          usedSeed, contrib, lastError, failedStage, diagnostic, lateStages, ciIn, ciOut,
          meshIn, meshOut>>

STREAM_COMPACTION == cfg.STREAM_COMPACTION

SORT_BY_MATERIAL == cfg.SORT_BY_MATERIAL

CACHE_ENABLE == cfg.CACHE_ENABLE

ANTIALIASING == cfg.ANTIALIASING

MOTION_BLUR_ENABLE == cfg.MOTION_BLUR_ENABLE

AMBIENT_LIGHT_ENABLE == cfg.AMBIENT_LIGHT_ENABLE

\* The switch combinations that compile: ANTIALIASING and MOTION_BLUR_ENABLE both
\* declare rng in generateRayFromCamera, and DEPTH_OF_FIELD_ENABLE never compiles.
Configs ==
    {c \in [STREAM_COMPACTION : BOOLEAN, SORT_BY_MATERIAL : BOOLEAN, CACHE_ENABLE : BOOLEAN,
            ANTIALIASING : BOOLEAN, MOTION_BLUR_ENABLE : BOOLEAN,
            AMBIENT_LIGHT_ENABLE : BOOLEAN] :
        ~(c.ANTIALIASING /\ c.MOTION_BLUR_ENABLE)}

Scenes ==
    {[geoms |-> SceneGeoms[k], materials |-> SceneMaterials, traceDepth |-> d] :
        k \in 1 .. Len(SceneGeoms), d \in 0 .. MaxTraceDepth}

traceDepth == hst_scene.traceDepth

pixelcount == NumPixels

num_paths == pixelcount

ZeroSegment == [ray |-> Ray(0, 0, 0), color |-> Vec3Zero, pixelIndex |-> 0, remainingBounces |-> 0]

NoSeeds == [i \in Pixels |-> <<>>]

Threads(n) == 0 .. n - 1

\* A kernel is over when all its threads have run, or when the device has failed.
KernelOver(n) == lastError # "none" \/ done = Threads(n)

Launch == done' = {} /\ lateStages' = IF lastError # "none" THEN 1 ELSE lateStages

Abort(msg) ==
    /\ pc' = "aborted"
    /\ diagnostic' = msg
    /\ lateStages' = IF msg = "pathtrace" THEN 1 ELSE lateStages
    /\ UNCHANGED <<cfg, hst_scene, dev_image, dev_paths, dev_intersections,
                   dev_intersections_cache, iter, depth, remaining_paths, done, snapVars,
                   usedSeed, contrib, lastError, failedStage, ciVars>>

\* exit(EXIT_FAILURE) when cudaGetLastError() reports an error.  The check at the
\* end of pathtrace follows sendImageToPBO and the copy to the host, which have then
\* run after the failure.
checkCUDAError(msg, Continue) == IF lastError # "none" THEN Abort(msg) ELSE Continue

\* The device buffers and the host's locals before pathtraceInit.
InitBuffers ==
    /\ dev_image = [p \in Pixels |-> Vec3Zero]
    /\ dev_paths = [i \in Pixels |-> ZeroSegment]
    /\ dev_intersections = [i \in Pixels |-> ZeroIntersection]
    /\ dev_intersections_cache = [i \in Pixels |-> ZeroIntersection]
    /\ iter = 0
    /\ depth = 0
    /\ remaining_paths = 0
    /\ done = {}
    /\ snapPaths = [i \in Pixels |-> ZeroSegment]
    /\ snapIsects = [i \in Pixels |-> ZeroIntersection]
    /\ snapRemaining = 0
    /\ usedSeed = NoSeeds
    /\ contrib = <<>>
    /\ lastError = "none"
    /\ failedStage = "none"
    /\ diagnostic = "none"
    /\ lateStages = 0
    /\ ciOut = ZeroIntersection
    /\ meshOut = <<>>

Init ==
    /\ cfg \in Configs
    /\ hst_scene \in Scenes
    /\ pc = "start"
    /\ ciIn = <<>>
    /\ meshIn = <<>>
    /\ InitBuffers

\* ------------------------------------------------------------ pathtraceInit
\* cudaMalloc leaves dev_paths uninitialized.  generateRayFromCamera writes every
\* field but ray.time (written only under MOTION_BLUR_ENABLE), and only a moving
\* geometry reads ray.time, so the garbage matters only there.
GarbageTimes == IF ~MOTION_BLUR_ENABLE /\ HasMoving(hst_scene.geoms) THEN Times ELSE {0}

pathtraceInit ==
    /\ pc \in {"start", "freed"}
    /\ \E g \in [Pixels -> GarbageTimes] :
          dev_paths' = [i \in Pixels |-> [ZeroSegment EXCEPT !.ray.time = g[i]]]
    /\ dev_image' = [p \in Pixels |-> Vec3Zero]
    /\ dev_intersections' = [i \in Pixels |-> ZeroIntersection]
    /\ dev_intersections_cache' = [i \in Pixels |-> ZeroIntersection]
    /\ iter' = 0
    /\ contrib' = <<>>
    /\ pc' = "idle"
    /\ UNCHANGED <<cfg, hst_scene, depth, remaining_paths, done, snapVars, usedSeed,
                   cudaVars, ciVars>>

pathtraceFree ==
    /\ pc = "idle"
    /\ pc' = "freed"
    /\ UNCHANGED <<cfg, hst_scene, dev_image, dev_paths, dev_intersections,
                   dev_intersections_cache, iter, depth, remaining_paths, done, snapVars,
                   usedSeed, contrib, cudaVars, ciVars>>

\* ---------------------------------------------------- generateRayFromCamera
\* The direction through pixel coordinate (x, y) of a NumPixels x 1 image.
CamDir(x, y) == (x + y * NumPixels) % NumDirs

\* int x += u01(rng) with u01 in (-0.5, 0.5): the sum is truncated towards zero.
Jitter(x, negative) == IF negative /\ x >= 1 THEN x - 1 ELSE x

GenerateSegment(it, index, old) ==
    LET x == index % NumPixels
        y == index \div NumPixels
        rng == makeSeededRandomEngine(it, index, 0)
        xj == IF ANTIALIASING THEN Jitter(x, Sample(rng, 2) = 1) ELSE x
        yj == IF ANTIALIASING THEN Jitter(y, Sample2(rng, 2) = 1) ELSE y
        time == IF MOTION_BLUR_ENABLE THEN Sample(rng, 2) ELSE old.ray.time
    IN  [ray |-> Ray(0, CamDir(xj, yj), time),
         color |-> White,
         pixelIndex |-> index,
         remainingBounces |-> traceDepth]

\* pathtrace(pbo, frame, iter) is called with iter = 1, 2, ... after pathtraceInit.
PathtraceBegin ==
    /\ pc = "idle"
    /\ iter < MaxIter
    /\ iter' = iter + 1
    /\ pc' = "generate"
    /\ Launch
    /\ UNCHANGED <<cfg, hst_scene, dev_image, dev_paths, dev_intersections,
                   dev_intersections_cache, depth, remaining_paths, snapVars, usedSeed,
                   contrib, lastError, failedStage, diagnostic, ciVars>>

generateRayFromCamera(index) ==
    /\ pc = "generate"
    /\ lastError = "none"
    /\ index \notin done
    /\ dev_paths' = [dev_paths EXCEPT ![index] = GenerateSegment(iter, index, dev_paths[index])]
    /\ done' = done \cup {index}
    /\ UNCHANGED <<cfg, hst_scene, dev_image, dev_intersections, dev_intersections_cache,
                   pc, iter, depth, remaining_paths, snapVars, usedSeed, contrib,
                   cudaVars, ciVars>>

GenerateDone ==
    /\ pc = "generate"
    /\ KernelOver(pixelcount)
    /\ checkCUDAError("generate camera ray",
          /\ depth' = 0
          /\ remaining_paths' = num_paths
          /\ pc' = "loop"
          /\ UNCHANGED <<cfg, hst_scene, dev_image, dev_paths, dev_intersections,
                         dev_intersections_cache, iter, done, snapVars, usedSeed, contrib,
                         cudaVars, ciVars>>)

\* ------------------------------------------------------------ the depth loop
\* #if CACHE_ENABLE && !ANTIALIASING ... if (depth <= 0)
CacheRound == CACHE_ENABLE /\ ~ANTIALIASING /\ depth <= 0

\* The head of the loop when the cached intersections are copied instead of traced.
TraceFromCache ==
    /\ pc = "loop"
    /\ CacheRound /\ iter > 1
    /\ dev_intersections' = dev_intersections_cache
    /\ pc' = "traced"
    /\ lateStages' = IF lastError # "none" THEN 1 ELSE lateStages
    /\ UNCHANGED <<cfg, hst_scene, dev_image, dev_paths, dev_intersections_cache, iter,
                   depth, remaining_paths, done, snapVars, usedSeed, contrib, lastError,
                   failedStage, diagnostic, ciVars>>

\* The head of the loop otherwise: cudaMemset and the launch of computeIntersections.
LaunchTrace ==
    /\ pc = "loop"
    /\ ~(CacheRound /\ iter > 1)
    /\ dev_intersections' = [i \in Pixels |-> ZeroIntersection]
    /\ snapPaths' = dev_paths
    /\ snapIsects' = [i \in Pixels |-> ZeroIntersection]
    /\ snapRemaining' = remaining_paths
    /\ pc' = "intersect"
    /\ Launch
    /\ UNCHANGED <<cfg, hst_scene, dev_image, dev_paths, dev_intersections_cache, iter,
                   depth, remaining_paths, usedSeed, contrib, lastError, failedStage,
                   diagnostic, ciVars>>

\* The slot of dev_paths the computeIntersections thread path_index reads.
TraceReadSlot(path_index) == path_index

computeIntersections(path_index) ==
    /\ pc = "intersect"
    /\ lastError = "none"
    /\ path_index < remaining_paths
    /\ path_index \notin done
    /\ dev_intersections' =
          [dev_intersections EXCEPT ![path_index] =
              ComputeIntersection(hst_scene.geoms, dev_paths[TraceReadSlot(path_index)],
                                  dev_intersections[path_index])]
    /\ done' = done \cup {path_index}
    /\ UNCHANGED <<cfg, hst_scene, dev_image, dev_paths, dev_intersections_cache, pc, iter,
                   depth, remaining_paths, snapVars, usedSeed, contrib, cudaVars, ciVars>>

TraceDone ==
    /\ pc = "intersect"
    /\ KernelOver(remaining_paths)
    /\ checkCUDAError("trace one bounce",
          /\ dev_intersections_cache' =
                IF CacheRound THEN dev_intersections ELSE dev_intersections_cache
          /\ pc' = "traced"
          /\ UNCHANGED <<cfg, hst_scene, dev_image, dev_paths, dev_intersections, iter,
                         depth, remaining_paths, done, snapVars, usedSeed, contrib,
                         cudaVars, ciVars>>)

material_cmp(s1, s2) == s1.materialId < s2.materialId

\* The orders thrust::sort_by_key may leave n keys in: it is not a stable sort.
SortedOrders(keys, n) ==
    {q \in Permutations(Threads(n)) :
        \A i, j \in Threads(n) : i < j => ~material_cmp(keys[q[j]], keys[q[i]])}

\* Slots 0..n-1 of array a reordered by q, the other slots kept.
Reorder(a, q, n) == [i \in Pixels |-> IF i < n THEN a[q[i]] ELSE a[i]]

\* cudaDeviceSynchronize(); depth++; and the sort under SORT_BY_MATERIAL
SortByMaterial ==
    /\ pc = "traced"
    /\ depth' = depth + 1
    /\ snapPaths' = dev_paths
    /\ snapIsects' = dev_intersections
    /\ snapRemaining' = remaining_paths
    /\ IF SORT_BY_MATERIAL
       THEN \E q \in SortedOrders(dev_intersections, remaining_paths) :
               /\ dev_intersections' = Reorder(dev_intersections, q, remaining_paths)
               /\ dev_paths' = Reorder(dev_paths, q, remaining_paths)
       ELSE UNCHANGED <<dev_intersections, dev_paths>>
    /\ pc' = "sorted"
    /\ lateStages' = IF lastError # "none" THEN 1 ELSE lateStages
    /\ UNCHANGED <<cfg, hst_scene, dev_image, dev_intersections_cache, iter,
                   remaining_paths, done, usedSeed, contrib, lastError, failedStage,
                   diagnostic, ciVars>>

LaunchShade ==
    /\ pc = "sorted"
    /\ snapPaths' = dev_paths
    /\ snapIsects' = dev_intersections
    /\ snapRemaining' = remaining_paths
    /\ usedSeed' = NoSeeds
    /\ pc' = "shade"
    /\ Launch
    /\ UNCHANGED <<cfg, hst_scene, dev_image, dev_paths, dev_intersections,
                   dev_intersections_cache, iter, depth, remaining_paths, contrib,
                   lastError, failedStage, diagnostic, ciVars>>

ShadeReadSlot_Neighbour(idx) == (idx + 1) % NumPixels

\* The slot of pathSegments the shadeBSDFMaterial thread idx reads.
ShadeReadSlot(idx) == idx

shadeBSDFMaterial(idx) ==
    /\ pc = "shade"
    /\ lastError = "none"
    /\ idx < remaining_paths
    /\ idx \notin done
    /\ LET seg == dev_paths[ShadeReadSlot(idx)]
           intersection == dev_intersections[idx]
       IN  /\ dev_paths' = [dev_paths EXCEPT ![idx] =
                  ShadePath(iter, idx, seg, intersection, hst_scene.materials,
                            AMBIENT_LIGHT_ENABLE)]
           /\ usedSeed' = [usedSeed EXCEPT ![idx] =
                  IF ShadeUsesRng(seg, intersection)
                  THEN makeSeededRandomEngine(iter, ShadeSeedIndex(idx, seg),
                                              seg.remainingBounces)
                  ELSE <<>>]
    /\ done' = done \cup {idx}
    /\ UNCHANGED <<cfg, hst_scene, dev_image, dev_intersections, dev_intersections_cache,
                   pc, iter, depth, remaining_paths, snapVars, contrib, cudaVars, ciVars>>

\* ------------------------------------------------------------- compaction
is_zero_NotNegative(p) == p.remainingBounces >= 0

is_zero(p) == p.remainingBounces > 0

not_is_zero(p) == ~is_zero(p)

SlotSeq(a, n) == [i \in 1 .. n |-> a[i - 1]]

\* thrust::remove_if in its place: the slots behind the kept paths keep what they held.
StablePartition_RemoveIf(paths, n) ==
    LET front == SelectSeq(SlotSeq(paths, n), is_zero)
    IN  [i \in Pixels |-> IF i < Len(front) THEN front[i + 1] ELSE paths[i]]

\* thrust::stable_partition(dev_paths, dev_paths + n, is_zero()): the array after it.
StablePartition(paths, n) ==
    LET front == SelectSeq(SlotSeq(paths, n), is_zero)
        back == SelectSeq(SlotSeq(paths, n), not_is_zero)
        all == front \o back
    IN  [i \in Pixels |-> IF i < n THEN all[i + 1] ELSE paths[i]]

\* new_dev_path_end - dev_paths
PartitionPoint(paths, n) == Len(SelectSeq(SlotSeq(paths, n), is_zero))

DepthReached_OffByOne(d, td) == d > td

\* if (depth >= traceDepth) iterationComplete = true
DepthReached(d, td) == d >= td

RECURSIVE SumColor(_, _, _)
SumColor(paths, p, n) ==
    IF n = 0 THEN Vec3Zero
    ELSE VAdd(SumColor(paths, p, n - 1),
              IF paths[n - 1].pixelIndex = p THEN paths[n - 1].color ELSE Vec3Zero)

\* The end of a round: the exit test, the compaction under STREAM_COMPACTION, and
\* either the next round or the launch of finalGather.
ShadeDone ==
    /\ pc = "shade"
    /\ KernelOver(remaining_paths)
    /\ LET newPaths == IF STREAM_COMPACTION
                       THEN StablePartition(dev_paths, remaining_paths) ELSE dev_paths
           newRemaining == IF STREAM_COMPACTION
                           THEN PartitionPoint(dev_paths, remaining_paths)
                           ELSE remaining_paths
           iterationComplete == DepthReached(depth, traceDepth) \/
                                (STREAM_COMPACTION /\ newRemaining <= 0)
       IN  /\ dev_paths' = newPaths
           /\ remaining_paths' = newRemaining
           /\ snapPaths' = dev_paths
           /\ snapIsects' = dev_intersections
           /\ snapRemaining' = remaining_paths
           /\ IF iterationComplete
              THEN /\ pc' = "gather"
                   /\ done' = {}
                   /\ contrib' = Append(contrib,
                          [p \in Pixels |-> SumColor(newPaths, p, num_paths)])
              ELSE /\ pc' = "loop"
                   /\ UNCHANGED <<done, contrib>>
    /\ lateStages' = IF lastError # "none" THEN 1 ELSE lateStages
    /\ UNCHANGED <<cfg, hst_scene, dev_image, dev_intersections, dev_intersections_cache,
                   iter, depth, usedSeed, lastError, failedStage, diagnostic, ciVars>>

\* ------------------------------------------------------------ finalGather
GatherAdd_Overwrite(image, iterationPath) ==
    [image EXCEPT ![iterationPath.pixelIndex] = iterationPath.color]

\* image[iterationPath.pixelIndex] += iterationPath.color
GatherAdd(image, iterationPath) ==
    [image EXCEPT ![iterationPath.pixelIndex] = VAdd(@, iterationPath.color)]

finalGather(index) ==
    /\ pc = "gather"
    /\ lastError = "none"
    /\ index < num_paths
    /\ index \notin done
    /\ dev_image' = GatherAdd(dev_image, dev_paths[index])
    /\ done' = done \cup {index}
    /\ UNCHANGED <<cfg, hst_scene, dev_paths, dev_intersections, dev_intersections_cache,
                   pc, iter, depth, remaining_paths, snapVars, usedSeed, contrib, cudaVars,
                   ciVars>>

\* sendImageToPBO, the copy to the host, and the last checkCUDAError of pathtrace
PathtraceEnd ==
    /\ pc = "gather"
    /\ KernelOver(num_paths)
    /\ checkCUDAError("pathtrace",
          /\ pc' = "idle"
          /\ UNCHANGED <<cfg, hst_scene, dev_image, dev_paths, dev_intersections,
                         dev_intersections_cache, iter, depth, remaining_paths, done,
                         snapVars, usedSeed, contrib, cudaVars, ciVars>>)

\* ------------------------------------------------------------ specification
Next ==
    \/ pathtraceInit
    \/ pathtraceFree
    \/ PathtraceBegin
    \/ \E index \in Pixels : generateRayFromCamera(index)
    \/ GenerateDone
    \/ TraceFromCache
    \/ LaunchTrace
    \/ \E path_index \in Pixels : computeIntersections(path_index)
    \/ TraceDone
    \/ SortByMaterial
    \/ LaunchShade
    \/ \E idx \in Pixels : shadeBSDFMaterial(idx)
    \/ ShadeDone
    \/ \E index \in Pixels : finalGather(index)
    \/ PathtraceEnd

Spec == Init /\ [][Next]_vars

\* Every enabled step of the host or of a launched kernel is eventually taken.
FairSpec == Spec /\ WF_vars(Next)

\* ------------------------------------------------- device failures (SpecErr)
\* A kernel fails (an invalid launch, an out-of-memory device): its remaining
\* threads never run and the error stays until a checkCUDAError reads it.
DeviceFailure ==
    /\ pc \in {"generate", "intersect", "shade", "gather"}
    /\ lastError = "none"
    /\ lastError' = pc
    /\ failedStage' = pc
    /\ UNCHANGED <<cfg, hst_scene, dev_image, dev_paths, dev_intersections,
                   dev_intersections_cache, pc, iter, depth, remaining_paths, done,
                   snapVars, usedSeed, contrib, diagnostic, lateStages, ciVars>>

\* An allocation or copy of pathtraceInit fails; checkCUDAError("pathtraceInit") ends it.
pathtraceInitFails ==
    /\ pc \in {"start", "freed"}
    /\ lastError' = "init"
    /\ failedStage' = "init"
    /\ diagnostic' = "pathtraceInit"
    /\ pc' = "aborted"
    /\ UNCHANGED <<cfg, hst_scene, dev_image, dev_paths, dev_intersections,
                   dev_intersections_cache, iter, depth, remaining_paths, done, snapVars,
                   usedSeed, contrib, lateStages, ciVars>>

\* A cudaFree of pathtraceFree fails; checkCUDAError("pathtraceFree") ends it.
pathtraceFreeFails ==
    /\ pc = "idle"
    /\ lastError' = "free"
    /\ failedStage' = "free"
    /\ diagnostic' = "pathtraceFree"
    /\ pc' = "aborted"
    /\ UNCHANGED <<cfg, hst_scene, dev_image, dev_paths, dev_intersections,
                   dev_intersections_cache, iter, depth, remaining_paths, done, snapVars,
                   usedSeed, contrib, lateStages, ciVars>>

NextErr == Next \/ DeviceFailure \/ pathtraceInitFails \/ pathtraceFreeFails

SpecErr == Init /\ [][NextErr]_vars

\* ------------------------------------- computeIntersections alone (SpecIsect)
TSet == -1 .. MaxT

\* The results of the intersection tests of a geometry list whose tests return ts.
CiTests(ts) == [i \in 1 .. Len(ts) |-> [t |-> ts[i], point |-> i, normal |-> 10 + i]]

CiMaterials(ts) == [i \in 1 .. Len(ts) |-> i % 3]

InitIsect ==
    /\ cfg \in {c \in Configs : \A f \in DOMAIN c : ~c[f]}
    /\ hst_scene = [geoms |-> <<>>, materials |-> SceneMaterials, traceDepth |-> 1]
    /\ pc = "ci"
    /\ ciIn \in UNION {[1 .. n -> TSet] : n \in 0 .. NumGeoms}
    /\ meshIn = <<>>
    /\ InitBuffers

ApplyComputeIntersections ==
    /\ pc = "ci"
    /\ ciOut' = RecordHit(CiTests(ciIn), CiMaterials(ciIn), ZeroIntersection)
    /\ pc' = "ciDone"
    /\ UNCHANGED <<cfg, hst_scene, dev_image, dev_paths, dev_intersections,
                   dev_intersections_cache, iter, depth, remaining_paths, done, snapVars,
                   usedSeed, contrib, cudaVars, ciIn, meshIn, meshOut>>

NextIsect == ApplyComputeIntersections

SpecIsect == InitIsect /\ [][NextIsect]_vars

\* ------------------------------------- meshIntersectionTest alone (SpecMesh)
\* What glm::intersectRayTriangle leaves in tvec for one triangle: tvec.x and tvec.y
\* are the barycentric coordinates of the hit for the second and the third vertex
\* (in units of 1 / BaryDenom), and tvec.z is the distance t (float t = tvec.z).
TriResults ==
    {[hit |-> FALSE, x |-> 0, y |-> 0, z |-> 0]} \cup
    {[hit |-> TRUE, x |-> u, y |-> v, z |-> t] :
        u \in 0 .. BaryDenom, v \in 0 .. BaryDenom, t \in 1 .. MaxT}

\* The loop over the triangles, from triangle i on: the nearest positive hit.
RECURSIVE ScanTriangles(_, _, _)
ScanTriangles(tris, i, acc) ==
    IF i > Len(tris) THEN acc
    ELSE ScanTriangles(tris, i + 1,
             IF tris[i].hit /\ CloserHit(tris[i].z, acc.t_min)
             THEN [t_min |-> tris[i].z, minId |-> i, minBary |-> tris[i]]
             ELSE acc)

\* normal = n1 * minBary.x + n2 * minBary.y + n3 * minBary.z: the weights the three
\* vertex normals get, in units of 1 / BaryDenom (a distance t is t * BaryDenom).
NormalWeights(minBary) == <<minBary.x, minBary.y, minBary.z * BaryDenom>>

\* The triangle loop and the shading normal of meshIntersectionTest.
MeshShadingNormal(tris) ==
    LET acc == ScanTriangles(tris, 1,
                   [t_min |-> FLT_MAX, minId |-> -1,
                    minBary |-> [hit |-> FALSE, x |-> 0, y |-> 0, z |-> 0]])
    IN  IF acc.minId < 0
        THEN [hit |-> FALSE, minId |-> -1, weights |-> <<0, 0, 0>>]
        ELSE [hit |-> TRUE, minId |-> acc.minId, weights |-> NormalWeights(acc.minBary)]

InitMesh ==
    /\ cfg \in {c \in Configs : \A f \in DOMAIN c : ~c[f]}
    /\ hst_scene = [geoms |-> <<>>, materials |-> SceneMaterials, traceDepth |-> 1]
    /\ pc = "mesh"
    /\ ciIn = <<>>
    /\ meshIn \in UNION {[1 .. n -> {r \in TriResults : r.x + r.y <= BaryDenom}] :
                             n \in 0 .. MaxTris}
    /\ InitBuffers

ApplyMeshIntersectionTest ==
    /\ pc = "mesh"
    /\ meshOut' = MeshShadingNormal(meshIn)
    /\ pc' = "meshDone"
    /\ UNCHANGED <<cfg, hst_scene, dev_image, dev_paths, dev_intersections,
                   dev_intersections_cache, iter, depth, remaining_paths, done, snapVars,
                   usedSeed, contrib, cudaVars, ciIn, ciOut, meshIn>>

NextMesh == ApplyMeshIntersectionTest

SpecMesh == InitMesh /\ [][NextMesh]_vars

\* ------------------------------------------------------------------- claims
InSession == pc \in {"idle", "generate", "loop", "intersect", "traced", "sorted", "shade", "gather"}

RECURSIVE SumContrib(_, _)
SumContrib(p, k) ==
    IF k = 0 THEN Vec3Zero ELSE VAdd(SumContrib(p, k - 1), contrib[k][p])

\* What the finalGather threads that have run added to pixel p.
RECURSIVE SumGathered(_, _)
SumGathered(p, n) ==
    IF n = 0 THEN Vec3Zero
    ELSE VAdd(SumGathered(p, n - 1),
              IF (n - 1) \in done /\ dev_paths[n - 1].pixelIndex = p
              THEN dev_paths[n - 1].color ELSE Vec3Zero)

\* C1: in a session (after pathtraceInit), the image value at every pixel p is the
\* sum, over the iterations whose depth loop has finished, of the colour of the path
\* whose pixelIndex is p (for the iteration being gathered: of the paths gathered so
\* far); after N calls the sum runs over iterations 1..N.  Nothing but the additions
\* of finalGather changes the image, under every combination of the switches.
C1_ImageIsSumOfPathColors ==
    InSession =>
        /\ pc = "idle" => Len(contrib) = iter
        /\ \A p \in Pixels :
              dev_image[p] =
                  IF pc = "gather"
                  THEN VAdd(SumContrib(p, Len(contrib) - 1), SumGathered(p, num_paths))
                  ELSE SumContrib(p, Len(contrib))

C1_Witness ==
    /\ pc = "idle" /\ iter = 2
    /\ STREAM_COMPACTION /\ SORT_BY_MATERIAL /\ CACHE_ENABLE
    /\ \E p \in Pixels : contrib[1][p] # Vec3Zero /\ contrib[2][p] # contrib[1][p]

\* C2: at the gather step the pixelIndex values of the pixelcount slots of the path
\* array are a permutation of 0..pixelcount-1: every pixel is the pixelIndex of
\* exactly one slot, so no two finalGather threads add to the same image entry.
C2_GatherPermutation ==
    pc = "gather" =>
        \A p \in Pixels :
            Cardinality({i \in Threads(num_paths) : dev_paths[i].pixelIndex = p}) = 1

C2_Witness ==
    /\ pc = "gather" /\ done = Threads(num_paths)
    /\ STREAM_COMPACTION /\ SORT_BY_MATERIAL
    /\ \E i \in Pixels : dev_paths[i].pixelIndex # i

\* C3: whenever a shadeBSDFMaterial thread seeds a random engine, the seed is the one
\* of (iteration, pixel index of the path it shades, its bounce counter), whichever
\* slot the path is in.
C3_SeedByPixel ==
    pc = "shade" =>
        \A i \in done :
            usedSeed[i] # <<>> =>
                usedSeed[i] = makeSeededRandomEngine(iter, snapPaths[i].pixelIndex,
                                                     snapPaths[i].remainingBounces)

\* C4: with CACHE_ENABLE and without ANTIALIASING (and no uninitialized ray time),
\* the record copied from the cache for the depth-0 round of an iteration after the
\* first is, for every slot, the record computeIntersections would produce for the
\* ray that slot holds in this iteration.
C4_CacheMatchesTrace ==
    (pc = "traced" /\ CacheRound /\ iter > 1 /\ GarbageTimes = {0}) =>
        \A i \in Pixels :
            dev_intersections[i] =
                ComputeIntersection(hst_scene.geoms, dev_paths[i], ZeroIntersection)

\* The intersection record the depth-d round of iteration it gives the path seg.
RoundIntersection(it, p, seg, d) ==
    IF CACHE_ENABLE /\ ~ANTIALIASING /\ d <= 0 /\ it > 1
    THEN dev_intersections_cache[p]
    ELSE ComputeIntersection(hst_scene.geoms, seg, ZeroIntersection)

\* The path of pixel p after the depth loop when no stage reorders the array, so
\* that the path stays in slot p: round d onwards.
RECURSIVE UnsortedTrace(_, _, _, _)
UnsortedTrace(it, p, seg, d) ==
    LET shaded == ShadePath(it, p, seg, RoundIntersection(it, p, seg, d),
                            hst_scene.materials, AMBIENT_LIGHT_ENABLE)
    IN  IF DepthReached(d + 1, traceDepth) THEN shaded
        ELSE UnsortedTrace(it, p, shaded, d + 1)

\* C5: the material sort keeps each path paired with the intersection of its own
\* ray, and (compaction off, no uninitialized ray time) the colour every path brings
\* to the gather step is the colour it has with the sort disabled.
C5_SortKeepsColors ==
    /\ (pc = "sorted" /\ SORT_BY_MATERIAL) =>
          \A i \in Threads(remaining_paths) :
              \E j \in Threads(remaining_paths) :
                  dev_paths[i] = snapPaths[j] /\ dev_intersections[i] = snapIsects[j]
    /\ (pc = "gather" /\ SORT_BY_MATERIAL /\ ~STREAM_COMPACTION /\ GarbageTimes = {0}) =>
          \A i \in Pixels :
              dev_paths[i].color =
                  UnsortedTrace(iter, dev_paths[i].pixelIndex,
                                GenerateSegment(iter, dev_paths[i].pixelIndex, dev_paths[i]),
                                0).color

\* The state right after the end of a round (the compaction step, when enabled).
AfterCompaction == (pc = "loop" /\ depth > 0) \/ pc = "gather"

\* C6: after every compaction step the slots [0, remaining_paths) hold exactly the
\* paths that had remainingBounces > 0 before it, each as often as before (once), the
\* terminated paths follow, the slots beyond the compacted range are untouched, and
\* remaining_paths is the number of active paths of the whole array.
C6_Compaction ==
    (STREAM_COMPACTION /\ AfterCompaction) =>
        /\ remaining_paths =
              Cardinality({i \in Threads(snapRemaining) : snapPaths[i].remainingBounces > 0})
        /\ remaining_paths = Cardinality({i \in Pixels : dev_paths[i].remainingBounces > 0})
        /\ \A i \in Pixels : i < remaining_paths <=> dev_paths[i].remainingBounces > 0
        /\ \A i \in Threads(snapRemaining) :
              Cardinality({j \in Threads(snapRemaining) : dev_paths[j] = snapPaths[i]})
                  = Cardinality({j \in Threads(snapRemaining) : snapPaths[j] = snapPaths[i]})
        /\ \A i \in Pixels : i >= snapRemaining => dev_paths[i] = snapPaths[i]

C6_Witness ==
    /\ STREAM_COMPACTION /\ pc = "loop" /\ depth > 0
    /\ remaining_paths > 0 /\ remaining_paths < snapRemaining
    /\ dev_paths # snapPaths

Max(a, b) == IF a >= b THEN a ELSE b

\* C7 as claimed: an iteration never runs more INTERSECT/SHADE rounds than the max
\* trace depth.
C7_RoundsWithinTraceDepth == InSession => depth <= traceDepth

\* C7 as amended: every depth loop reaches the gather step; the exit test follows
\* the round, so the loop runs at least one round and at most max(1, traceDepth);
\* it stops exactly when depth has reached traceDepth or, with compaction, when no
\* active path remains.
C7_LoopTerminates ==
    /\ (pc = "loop") ~> (pc = "gather")
    /\ [](InSession => depth <= Max(1, traceDepth))
    /\ [][(pc = "shade" /\ pc' \in {"loop", "gather"}) =>
            (pc' = "gather" <=>
                (depth >= traceDepth \/ (STREAM_COMPACTION /\ remaining_paths' <= 0)))]_vars

C7_Witness == pc = "gather" /\ traceDepth = 0 /\ depth = 1

\* C8: while computeIntersections or shadeBSDFMaterial runs, slot i holds the
\* thread's result computed from the stage's input of slot i alone if thread i has
\* run and its input otherwise, and the array the stage only reads is unchanged: the
\* arrays a stage produces do not depend on the order of its threads.
C8_ThreadsIndependent ==
    /\ pc = "intersect" =>
          /\ dev_paths = snapPaths
          /\ \A i \in Pixels :
                dev_intersections[i] =
                    IF i \in done
                    THEN ComputeIntersection(hst_scene.geoms, snapPaths[i], snapIsects[i])
                    ELSE snapIsects[i]
    /\ pc = "shade" =>
          /\ dev_intersections = snapIsects
          /\ \A i \in Pixels :
                dev_paths[i] =
                    IF i \in done
                    THEN ShadePath(iter, i, snapPaths[i], snapIsects[i],
                                   hst_scene.materials, AMBIENT_LIGHT_ENABLE)
                    ELSE snapPaths[i]

C8_Witness ==
    /\ pc = "shade" /\ done = {1}
    /\ dev_paths[1] # snapPaths[1] /\ snapPaths[0].remainingBounces > 0

\* Whether the message checkCUDAError printed names the stage.
DiagnosticNames(msg, stage) ==
    \/ msg = "pathtraceInit" /\ stage = "init"
    \/ msg = "pathtraceFree" /\ stage = "free"
    \/ msg = "generate camera ray" /\ stage = "generate"
    \/ msg = "trace one bounce" /\ stage = "intersect"
    \/ msg = "pathtrace" /\ stage \in {"shade", "gather"}

\* C9: when a stage fails the process is aborted before any later stage starts, and
\* the diagnostic names the stage that failed.
C9_AbortNamesStage ==
    pc = "aborted" => (DiagnosticNames(diagnostic, failedStage) /\ lateStages = 0)

\* C10: computeIntersections records the smallest strictly positive t among the
\* tests' results, with the point, normal and material id of a record that returned
\* it; with no positive t it records t = -1.
C10_NearestPositiveHit ==
    pc = "ciDone" =>
        LET pos == {i \in 1 .. Len(ciIn) : ciIn[i] > 0}
        IN  IF pos = {} THEN ciOut.t = -1
            ELSE \E i \in pos :
                    /\ \A j \in pos : ciIn[i] <= ciIn[j]
                    /\ ciOut = [t |-> ciIn[i], materialId |-> CiMaterials(ciIn)[i],
                                surfaceNormal |-> CiTests(ciIn)[i].normal,
                                point |-> CiTests(ciIn)[i].point]

C10_Witness ==
    /\ pc = "ciDone" /\ Len(ciIn) = 3
    /\ ciIn[3] > 0 /\ ciIn[3] < ciIn[1] /\ ciIn[2] = 0
    /\ ciOut.point = 3

LoopStages == {"loop", "intersect", "traced", "sorted", "shade"}

\* colour * (sky term of direction d), or zero without ambient light
SkyColor(color, d) ==
    IF AMBIENT_LIGHT_ENABLE
    THEN <<(color[1] * SkyTerm(d)[1]) \div 100, (color[2] * SkyTerm(d)[2]) \div 100,
           (color[3] * SkyTerm(d)[3]) \div 100>>
    ELSE <<0, 0, 0>>

\* initial colour (1, 1, 1) * material colour * emittance, in hundredths
LightColor(color, m) ==
    <<color[1] * m.color[1] * m.emittance, color[2] * m.color[2] * m.emittance,
      color[3] * m.color[3] * m.emittance>>

\* Every primary ray of every iteration hits the light material m.
AllPrimaryHit(m) ==
    \A it \in 1 .. MaxIter, p \in Pixels :
        LET r == ComputeIntersection(hst_scene.geoms, GenerateSegment(it, p, ZeroSegment),
                                     ZeroIntersection)
        IN  r.t > 0 /\ r.materialId = m

\* C11: when every primary ray hits one emissive material (colour c, emittance e),
\* ambient light is disabled and the max trace depth is 1, every iteration adds
\* (1, 1, 1) * c * e to every pixel: (5, 5, 5) for the white light of emittance 5, so
\* that after N iterations every pixel holds N * (5, 5, 5).
C11_LightFillsView ==
    (InSession /\ AllPrimaryHit(0) /\ hst_scene.materials[0].emittance > 0
       /\ ~AMBIENT_LIGHT_ENABLE /\ traceDepth = 1) =>
        /\ \A k \in 1 .. Len(contrib), p \in Pixels :
              /\ contrib[k][p] = LightColor(<<100, 100, 100>>, hst_scene.materials[0])
              /\ contrib[k][p] = <<500, 500, 500>>
        /\ pc = "idle" =>
              \A p \in Pixels : dev_image[p] = <<500 * iter, 500 * iter, 500 * iter>>

C11_Witness ==
    /\ pc = "idle" /\ iter = 2 /\ AllPrimaryHit(0)
    /\ ~AMBIENT_LIGHT_ENABLE /\ traceDepth = 1
    /\ \A p \in Pixels : dev_image[p] = <<1000, 1000, 1000>>

\* C12: a shade thread whose active path hits a material of emittance > 0 multiplies
\* the colour by (material colour * emittance), sets remainingBounces to -1, leaves
\* the ray as it was and draws no new one; and a path with remainingBounces = -1 is
\* never changed again until the gather step of its iteration, whatever slot the
\* sort or the compaction moves it to.
C12_LightTerminates ==
    /\ [](pc = "shade" =>
            \A i \in done :
                (/\ snapPaths[i].remainingBounces > 0
                 /\ snapIsects[i].t > 0
                 /\ hst_scene.materials[snapIsects[i].materialId].emittance > 0) =>
                    dev_paths[i] =
                        [ray |-> snapPaths[i].ray,
                         color |-> LightColor(snapPaths[i].color,
                                              hst_scene.materials[snapIsects[i].materialId]),
                         pixelIndex |-> snapPaths[i].pixelIndex,
                         remainingBounces |-> -1])
    /\ [][(pc \in LoopStages) =>
            \A i \in Pixels :
                dev_paths[i].remainingBounces = -1 =>
                    (\E j \in Pixels : dev_paths'[j] = dev_paths[i])]_vars

C12_Witness ==
    /\ pc = "shade" /\ depth = 2 /\ ~STREAM_COMPACTION /\ SORT_BY_MATERIAL
    /\ \E i \in done :
          /\ snapPaths[i].remainingBounces = -1
          /\ snapPaths[i].color = <<500, 500, 500>>
          /\ snapIsects[i].t > 0
          /\ dev_paths[i] = snapPaths[i]

\* The effect of a shade thread on an active path whose intersection is a miss.
MissShaded ==
    pc = "shade" =>
        \A i \in done :
            (snapPaths[i].remainingBounces > 0 /\ snapIsects[i].t <= 0) =>
                /\ dev_paths[i] =
                      [ray |-> snapPaths[i].ray,
                       color |-> SkyColor(snapPaths[i].color, snapPaths[i].ray.direction),
                       pixelIndex |-> snapPaths[i].pixelIndex,
                       remainingBounces |-> 0]
                /\ usedSeed[i] = <<>>

\* Every primary ray of every iteration misses.
AllPrimaryMiss ==
    \A it \in 1 .. MaxIter, p \in Pixels :
        ComputeIntersection(hst_scene.geoms, GenerateSegment(it, p, ZeroSegment),
                            ZeroIntersection).t <= 0

SameEveryIteration == \A k \in 1 .. Len(contrib), p \in Pixels : contrib[k][p] = contrib[1][p]

\* C13 as claimed: a miss multiplies the colour by the sky term of the ray direction
\* (zero without ambient light), sets remainingBounces to 0 and draws no random
\* number; hence where every path misses at depth 0, each pixel gets the same
\* contribution in every iteration.
C13_MissSameEveryIteration ==
    /\ MissShaded
    /\ AllPrimaryMiss => SameEveryIteration

\* C13 as amended: the effect of a miss is as claimed; where every path misses at
\* depth 0, each pixel gets the same contribution in every iteration when
\* ANTIALIASING is off, the primary ray direction then being the same every iteration.
C13_MissSameWithoutJitter ==
    /\ MissShaded
    /\ (AllPrimaryMiss /\ ~ANTIALIASING) => SameEveryIteration

C13_Witness ==
    /\ pc = "idle" /\ iter = 2 /\ AllPrimaryMiss
    /\ ~ANTIALIASING /\ AMBIENT_LIGHT_ENABLE /\ traceDepth = 2
    /\ contrib[2] = contrib[1]
    /\ contrib[1][0] # contrib[1][1]
    /\ \A i \in Pixels : dev_paths[i].remainingBounces = 0

\* C14: a shade thread whose active path hits a material of emittance 0 applies
\* scatterRay and decrements remainingBounces by exactly one; when that gives 0, the
\* colour after the scatter is multiplied by the sky term (zeroed without ambient
\* light); and a path with remainingBounces = 0 is not changed by any later round of
\* its iteration.
C14_ScatterThenAmbient ==
    /\ [](pc = "shade" =>
            \A i \in done :
                (/\ snapPaths[i].remainingBounces > 0
                 /\ snapIsects[i].t > 0
                 /\ hst_scene.materials[snapIsects[i].materialId].emittance = 0) =>
                    LET s == scatterRay(snapPaths[i], snapIsects[i].point,
                                        snapIsects[i].surfaceNormal,
                                        hst_scene.materials[snapIsects[i].materialId],
                                        usedSeed[i])
                    IN  /\ dev_paths[i].remainingBounces = snapPaths[i].remainingBounces - 1
                        /\ dev_paths[i].ray = s.ray
                        /\ dev_paths[i].pixelIndex = snapPaths[i].pixelIndex
                        /\ dev_paths[i].color =
                              IF snapPaths[i].remainingBounces = 1
                              THEN SkyColor(s.color, s.ray.direction)
                              ELSE s.color)
    /\ [][(pc \in LoopStages) =>
            \A i \in Pixels :
                dev_paths[i].remainingBounces = 0 =>
                    (\E j \in Pixels : dev_paths'[j] = dev_paths[i])]_vars

C14_Witness ==
    /\ pc = "shade" /\ AMBIENT_LIGHT_ENABLE
    /\ \E i \in done :
          /\ snapPaths[i].remainingBounces = 1
          /\ snapIsects[i].t > 0
          /\ hst_scene.materials[snapIsects[i].materialId].emittance = 0
          /\ dev_paths[i].remainingBounces = 0
          /\ dev_paths[i].ray # snapPaths[i].ray
          /\ dev_paths[i].color # snapPaths[i].color

\* C15: for a mesh hit, the three vertex normals of the nearest hit triangle are
\* weighted by the barycentric weights of the hit point: 1 - u - v for the first
\* vertex, u and v for the other two, which sum to 1, none of them the distance t.
C15_MeshNormalBarycentric ==
    (pc = "meshDone" /\ meshOut.hit) =>
        LET h == meshIn[meshOut.minId]
        IN  /\ meshOut.weights = <<BaryDenom - h.x - h.y, h.x, h.y>>
            /\ meshOut.weights[1] + meshOut.weights[2] + meshOut.weights[3] = BaryDenom

\* C16: within an iteration remainingBounces of a path never increases and stays in
\* -1 .. traceDepth; once it is <= 0 no step before the end of the iteration changes
\* the path's colour, ray, pixelIndex or counter (also without compaction, when the
\* terminated path is still intersected and passed to the shade kernel); and every
\* path gathered has remainingBounces <= 0.
C16_TerminatedStaysTerminated ==
    /\ [](pc \in (LoopStages \cup {"gather"}) =>
            \A i \in Pixels : dev_paths[i].remainingBounces \in -1 .. traceDepth)
    /\ [](pc = "gather" => \A i \in Pixels : dev_paths[i].remainingBounces <= 0)
    /\ [][(pc \in (LoopStages \cup {"gather"})) =>
            \A i \in Pixels :
                \E j \in Pixels :
                    (/\ dev_paths'[j].pixelIndex = dev_paths[i].pixelIndex
                     /\ dev_paths'[j].remainingBounces <= dev_paths[i].remainingBounces
                     /\ dev_paths[i].remainingBounces <= 0 => dev_paths'[j] = dev_paths[i])]_vars

C16_Witness ==
    /\ pc = "gather" /\ depth = 2 /\ ~STREAM_COMPACTION /\ AMBIENT_LIGHT_ENABLE
    /\ done = Threads(num_paths)
    /\ \E i, j \in Pixels :
          /\ dev_paths[i].remainingBounces = -1
          /\ dev_paths[j].remainingBounces = 0
          /\ dev_paths[j].color # <<100, 100, 100>>
====
